---- MODULE Spec2Model ----
(***************************************************************************)
(* A model of djview: the per-request ambient Context (context.py), the    *)
(* layer composer and the standard layers (views.py, auth.py), run by a    *)
(* small-step interpreter of the Python call stack.  One thread of control *)
(* processes one request at a time through the view that context_view      *)
(* builds around a composed service.                                       *)
(***************************************************************************)
EXTENDS Integers, Sequences, FiniteSets, TLC

\* Bounds of the model.
MaxLayers == 2      \* longest list of layers handed to layers()/into_service()
MaxRequests == 2    \* requests one thread of control processes

Threads == {"t1", "t2"}
MainThread == "t1"

\* context.py:8, views.py:14, auth.py:10.
HTTP_REQUEST_KEY == "__request__"
EXCEPTION_RESULT_CONTEXT_KEY == "__exception__"
USER_CONTEXT_KEY == "__user__"

\* JSON scalars keep their type: 500 and "500" are different values.
IntV(n) == [int |-> n]
StrV(s) == [str |-> s]
None == [none |-> TRUE]

(***************************************************************************)
(* Exceptions.  attrs holds the attributes set on the exception object, so *)
(* hasattr(e, a) is  a \in DOMAIN e.attrs.                                 *)
(***************************************************************************)
Exc(msg, attrs) == [msg |-> msg, attrs |-> attrs]
hasattr(e, a) == a \in DOMAIN e.attrs

\* The exception raised by tests/urls.py view2.
View2Exception ==
    Exc("Something went wrong",
        [status_code |-> 500, code |-> StrV("SOMETHING_WENT_WRONG"),
         details |-> [foo |-> "bar"]])

Messages == {"Something went wrong", "boom"}
AttrSets ==
    {<<>>,
     [status_code |-> 500],
     [status_code |-> 400],
     [code |-> StrV("E_CODE")],
     [status_code |-> 400, code |-> StrV("E_CODE"), details |-> [foo |-> "bar"]],
     [status_code |-> 500, code |-> StrV("SOMETHING_WENT_WRONG"),
      details |-> [foo |-> "bar"]]}
Exceptions == {Exc(m, a) : m \in Messages, a \in AttrSets}

\* Python's own failures of a context access.
KeyError(key) == Exc(key, <<>>)
LookupError == Exc("<ContextVar name='djview_context'>", <<>>)

(***************************************************************************)
(* Responses.                                                              *)
(***************************************************************************)
JsonResponse(body, status) == [status |-> status, body |-> body]
HttpResponse(content, status) == [status |-> status, body |-> [content |-> content]]

view204_response == [status |-> 204, body |-> [content |-> ""]]
view404_response ==
    JsonResponse([message |-> "not found", code |-> IntV(404), details |-> <<>>], 404)
view403_response ==
    JsonResponse([message |-> "you do not have permission to perform this action",
                  code |-> IntV(403), details |-> <<>>], 403)

\* A bug: the message of a 500 is not hidden.
default_exception_response_flat(exception) ==
    LET status_code == IF ~hasattr(exception, "status_code") THEN 500
                       ELSE exception.attrs.status_code
        code == IF ~hasattr(exception, "code") THEN IntV(status_code)
                ELSE exception.attrs.code
        details == IF ~hasattr(exception, "details") THEN <<>>
                   ELSE exception.attrs.details
    IN  JsonResponse([message |-> exception.msg, code |-> code, details |-> details],
                     status_code)

\* A bug: the code of a failure without one is 500 whatever its status.
default_exception_response_code500(exception) ==
    LET status_code == IF ~hasattr(exception, "status_code") THEN 500
                       ELSE exception.attrs.status_code
        code == IF ~hasattr(exception, "code") THEN IntV(500)
                ELSE exception.attrs.code
        details == IF ~hasattr(exception, "details") THEN <<>>
                   ELSE exception.attrs.details
        message == IF status_code # 500 THEN exception.msg
                   ELSE "internal server error"
    IN  JsonResponse([message |-> message, code |-> code, details |-> details],
                     status_code)

\* views.py:124-136.  exception is the object stored under the result key.
default_exception_response(exception) ==
    LET status_code == IF ~hasattr(exception, "status_code") THEN 500
                       ELSE exception.attrs.status_code
        code == IF ~hasattr(exception, "code") THEN IntV(status_code)
                ELSE exception.attrs.code
        details == IF ~hasattr(exception, "details") THEN <<>>
                   ELSE exception.attrs.details
        message == IF status_code # 500 THEN exception.msg
                   ELSE "internal server error"
    IN  JsonResponse([message |-> message, code |-> code, details |-> details],
                     status_code)

(***************************************************************************)
(* Services and layers as values.  A service is a terminal view, the       *)
(* default exception handler, or the wrapper closure a layer returns.      *)
(***************************************************************************)
Returns(response) == [ret |-> response]
Raises(exception) == [raise |-> exception]
View(name, ops, out) == [kind |-> "view", name |-> name, ops |-> ops, out |-> out]

view403 == View("view403", <<>>, Returns(view403_response))
view404 == View("view404", <<>>, Returns(view404_response))
default_exception_handler == [kind |-> "default_exception_handler"]

Wrapper(layer, service) == [kind |-> "wrapper", layer |-> layer, service |-> service]

\* A bug: the error-handling service of exception_layer built inside inner(),
\* where the name service is the wrapped service and no longer the handler.
ApplyLayer_shadowed(outer, service) ==
    IF outer.kind = "noop_layer" THEN service
    ELSE IF outer.kind = "exception_layer"
         THEN Wrapper([outer EXCEPT !.exception_service = service], service)
    ELSE Wrapper(outer, service)

\* views.py:119-120 returns the service itself; every other layer returns a
\* wrapper closing over the service.
ApplyLayer(outer, service) ==
    IF outer.kind = "noop_layer" THEN service ELSE Wrapper(outer, service)

\* A bug: the layers applied in the order listed, so the last one ends outermost.
RECURSIVE layers_forward(_, _)
layers_forward(outers, service) ==
    IF outers = <<>> THEN service
    ELSE layers_forward(Tail(outers), ApplyLayer(Head(outers), service))

\* views.py:94-101: for outer in reversed(outers): service = outer(service).
RECURSIVE layers(_, _)
layers(outers, service) ==
    IF outers = <<>> THEN service
    ELSE layers(SubSeq(outers, 1, Len(outers) - 1),
                ApplyLayer(outers[Len(outers)], service))

\* views.py:105-107.
into_service(outers, service) == layers(outers, service)

noop_layer == [kind |-> "noop_layer"]

\* A layer with logic of its own before and after the call of the wrapped
\* service (views.py:10, any Callable[[Service], Service]).
probe_layer(id) == [kind |-> "probe_layer", id |-> id]

\* A bug: the failure stored under another key than the one asked for.
exception_layer_otherkey(outers, service, result_ctx_key) ==
    [kind |-> "exception_layer",
     exception_service |-> into_service(outers, service),
     result_ctx_key |-> "exception"]

\* views.py:140-158.
exception_layer(outers, service, result_ctx_key) ==
    [kind |-> "exception_layer",
     exception_service |-> into_service(outers, service),
     result_ctx_key |-> result_ctx_key]

\* views.py:162-177.
case_layer(condition, outers, service) ==
    [kind |-> "case_layer",
     condition |-> condition,
     condition_service |-> into_service(outers, service)]

\* A bug: the outer layers of the alternate service left out.
method_layer_bare(method, outers, service) ==
    case_layer([kind |-> "method_is", method |-> method], <<>>, service)

\* views.py:181-184.
method_layer(method, outers, service) ==
    case_layer([kind |-> "method_is", method |-> method], outers, service)

\* auth.py:17-32.
authentication_layer(kwarg_keys, user_ctx_key) ==
    [kind |-> "authentication_layer", kwarg_keys |-> kwarg_keys,
     user_ctx_key |-> user_ctx_key]

\* auth.py:36-48.
permission_layer(rules) == [kind |-> "permission_layer", rules |-> rules]

\* auth.py:52-56.
is_authenticated_layer(user_ctx_key) ==
    permission_layer(<<[kind |-> "is_authenticated", user_ctx_key |-> user_ctx_key]>>)

\* auth.py:60-66.
has_permissions_layer(permissions, user_ctx_key) ==
    permission_layer(<<[kind |-> "has_perms", permissions |-> permissions,
                        user_ctx_key |-> user_ctx_key]>>)

(***************************************************************************)
(* Requests, principals and the dictionaries of the context.               *)
(***************************************************************************)
Request(id, method, user_id) == [id |-> id, method |-> method, user_id |-> user_id]
RequestId(t, n) == [thread |-> t, n |-> n]

AnonymousUser == [name |-> "anonymous", is_authenticated |-> FALSE, perms |-> {}]
ViewPerm == "test_app.view_testmodel"
ChangePerm == "test_app.change_testmodel"
\* The users of tests.py:259-291: one without and one with the permission,
\* and one with a second permission as well.
UserTable ==
    [alice |-> [name |-> "alice", is_authenticated |-> TRUE, perms |-> {}],
     bob |-> [name |-> "bob", is_authenticated |-> TRUE, perms |-> {ViewPerm}],
     carol |-> [name |-> "carol", is_authenticated |-> TRUE,
                perms |-> {ViewPerm, ChangePerm}]]
UserIds == {"", "alice", "bob"}

\* tests/test_app/auth_backends.py:4-11: no HTTP_USER_ID header, no principal.
authenticate(request) ==
    IF request.user_id = "" THEN None ELSE UserTable[request.user_id]

DictSet(d, key, value) ==
    [x \in (DOMAIN d) \cup {key} |-> IF x = key THEN value ELSE d[x]]
DictGet(d, key) == IF key \in DOMAIN d THEN d[key] ELSE None

\* The dictionaries initial_data callables hand to enter_context.  They are
\* objects of their own: a callable may return the same one for every request.
EmptyInitial == [module |-> "EMPTY"]
KwargsInitial == [module |-> "KWARGS"]
InitialAddrs == {EmptyInitial, KwargsInitial}
InitialHeap ==
    [a \in InitialAddrs |->
        IF a = EmptyInitial THEN <<>> ELSE [pk |-> IntV(1), k |-> StrV("initial")]]

\* The dictionary enter_context creates for request n of thread t.
FreshAddr(t, n) == [thread |-> t, n |-> n]

Missing == [missing |-> TRUE]
Bound(a) == [addr |-> a]

NoResult == [kind |-> "none"]
ResponseResult(r) == [kind |-> "response", response |-> r]
FailureResult(e) == [kind |-> "failure", exception |-> e]

VARIABLES
    heap,     \* the dictionaries alive: address -> dictionary
    cvar,     \* _REQUEST_CONTEXT_VAR in each thread's context: Missing or Bound(a)
    job,      \* the arguments of the running context_view wrapper
    mode,     \* where each thread's control is
    reg,      \* the service about to be called, the response returned or the
              \* exception raised
    stack,    \* the frames that still have work to do when their callee ends
    pc,       \* the next operation of the running view
    seen,     \* what the running view read last from the context
    result,   \* what the boundary adapter got from the last request
    reqno,    \* requests each thread has received
    trace     \* the events of the running request, in order

\* The state of the CRUD services of crud.py: the table of the model, the
\* running service and where it stands.
VARIABLES
    table,      \* the rows of the model, ordered by primary key
    nextpk,     \* the primary key the next row saved gets
    svc,        \* the CRUD service that is running, None when none is
    crequest,   \* its request: the query parameters and the form data
    cdata,      \* the dictionary of the request's context
    cpc,        \* where the service stands
    fidx,       \* the filterer the loop is at
    instances,  \* the local variable instances
    instance,   \* the local variable instance
    error,      \* the error response the mutator returned, None when none
    calls,      \* the calls of filterers, mutator and serializer, in order
    outcome,    \* what the service returned or raised
    ncalls      \* services called so far

corevars == <<heap, cvar, job, mode, reg, stack, pc, seen, result, reqno, trace>>
crudvars == <<table, nextpk, svc, crequest, cdata, cpc, fidx, instances, instance,
              error, calls, outcome, ncalls>>
vars == <<corevars, crudvars>>

InitCore ==
    /\ heap = InitialHeap
    /\ cvar = [t \in Threads |-> Missing]
    /\ job = [t \in Threads |-> None]
    /\ mode = [t \in Threads |-> "idle"]
    /\ reg = [t \in Threads |-> None]
    /\ stack = [t \in Threads |-> <<>>]
    /\ pc = [t \in Threads |-> 0]
    /\ seen = [t \in Threads |-> None]
    /\ result = [t \in Threads |-> NoResult]
    /\ reqno = [t \in Threads |-> 0]
    /\ trace = [t \in Threads |-> <<>>]

\* No CRUD service is running.
IdleCrud ==
    /\ svc = None
    /\ crequest = None
    /\ cdata = <<>>
    /\ cpc = "idle"
    /\ fidx = 0
    /\ instances = None
    /\ instance = None
    /\ error = None
    /\ calls = <<>>
    /\ outcome = NoResult
    /\ ncalls = 0

Init ==
    /\ InitCore
    /\ table = <<>>
    /\ nextpk = 1
    /\ IdleCrud

(***************************************************************************)
(* The Context object (context.py:24-61).  There is one, _CONTEXT, and its *)
(* data is whatever _REQUEST_CONTEXT_VAR holds in the running thread.      *)
(***************************************************************************)
\* A bug: one binding for the whole process instead of one per thread.
ContextVarGet_global(cv, t) == cv[MainThread]

\* context.py:9: the value of the ContextVar in thread t's own context.
ContextVarGet(cv, t) == cv[t]

\* context.py:45-47.
exists(t) == ContextVarGet(cvar, t) # Missing

Ok(h, value) == [ok |-> TRUE, heap |-> h, value |-> value]
Fail(h, exception) == [ok |-> FALSE, heap |-> h, exception |-> exception]

\* ctx[key] = value: UserDict.__setitem__ on the data property, context.py:40-43.
CtxSetItem(h, cv, t, key, value) ==
    LET b == ContextVarGet(cv, t)
    IN  IF b = Missing THEN Fail(h, LookupError)
        ELSE Ok([h EXCEPT ![b.addr] = DictSet(@, key, value)], None)

\* ctx[key]: UserDict.__getitem__ on the data property.
CtxGetItem(h, cv, t, key) ==
    LET b == ContextVarGet(cv, t)
    IN  IF b = Missing THEN Fail(h, LookupError)
        ELSE IF key \in DOMAIN h[b.addr] THEN Ok(h, h[b.addr][key])
        ELSE Fail(h, KeyError(key))

\* ctx.get(key): Mapping.get, None for a missing key.
CtxGet(h, cv, t, key) ==
    LET r == CtxGetItem(h, cv, t, key)
    IN  IF r.ok \/ r.exception = LookupError THEN r ELSE Ok(h, None)

\* A bug: the dictionary handed in is installed itself, not a copy of it.
enter_context_set_nocopy(h, cv, t, initial, fresh) ==
    IF initial = None
    THEN [heap |-> h @@ (fresh :> <<>>), cvar |-> [cv EXCEPT ![t] = Bound(fresh)]]
    ELSE [heap |-> h, cvar |-> [cv EXCEPT ![t] = Bound(initial)]]

\* context.py:16-19: token = _REQUEST_CONTEXT_VAR.set(initial_data.copy()).
\* fresh is the address of the new dictionary.
enter_context_set(h, cv, t, initial, fresh) ==
    LET initial_data == IF initial = None THEN <<>> ELSE h[initial]
    IN  [heap |-> h @@ (fresh :> initial_data),
         cvar |-> [cv EXCEPT ![t] = Bound(fresh)]]

\* context.py:20-21: the generator is resumed after its yield when the body of
\* the with statement returns, and has the exception thrown into it at the
\* yield when the body raises; nothing catches it there, so reset is skipped.
enter_context_exit(cv, t, token, raised) ==
    IF raised THEN cv ELSE [cv EXCEPT ![t] = token]

\* Dictionaries nothing refers to any more are dropped.
Reachable(cv, st) ==
    InitialAddrs
    \cup {cv[t].addr : t \in {u \in Threads : cv[u] # Missing}}
    \cup UNION {{st[t][i].token.addr :
                    i \in {j \in 1..Len(st[t]) :
                             /\ st[t][j].kind = "enter_context"
                             /\ st[t][j].token # Missing}} : t \in Threads}
Collect(h, cv, st) == [a \in (DOMAIN h) \cap Reachable(cv, st) |-> h[a]]

(***************************************************************************)
(* Conditions of case_layer and rules of permission_layer, over the        *)
(* dictionary d of the context.                                            *)
(***************************************************************************)
\* views.py:181-184 (request.method == method) and conditions on the entries.
EvalCondition(condition, d) ==
    IF condition.kind = "method_is"
    THEN DictGet(d, HTTP_REQUEST_KEY).method = condition.method
    ELSE condition.key \in DOMAIN d

Verdict(kind) == [kind |-> kind]
RuleRaised(exception) == [kind |-> "raise", exception |-> exception]

\* A bug: has_perms true as soon as one of the permissions is held.
EvalRule_anyperm(rule, d) ==
    IF rule.kind = "const" THEN Verdict(IF rule.value THEN "allow" ELSE "deny")
    ELSE IF rule.user_ctx_key \notin DOMAIN d
         THEN RuleRaised(KeyError(rule.user_ctx_key))
    ELSE IF rule.kind = "is_authenticated"
         THEN Verdict(IF d[rule.user_ctx_key].is_authenticated THEN "allow" ELSE "deny")
    ELSE Verdict(IF rule.permissions \cap d[rule.user_ctx_key].perms # {}
                 THEN "allow" ELSE "deny")

\* auth.py:53-54, 63-64; a constant rule is the rule of spec section 8.
EvalRule(rule, d) ==
    IF rule.kind = "const" THEN Verdict(IF rule.value THEN "allow" ELSE "deny")
    ELSE IF rule.user_ctx_key \notin DOMAIN d
         THEN RuleRaised(KeyError(rule.user_ctx_key))
    ELSE IF rule.kind = "is_authenticated"
         THEN Verdict(IF d[rule.user_ctx_key].is_authenticated THEN "allow" ELSE "deny")
    ELSE Verdict(IF rule.permissions \subseteq d[rule.user_ctx_key].perms
                 THEN "allow" ELSE "deny")

\* A bug: a rule that fails is passed over.
RECURSIVE EvalRules_lenient(_, _)
EvalRules_lenient(rules, d) ==
    IF rules = <<>> THEN Verdict("allow")
    ELSE LET v == EvalRule(Head(rules), d)
         IN  IF v.kind = "raise" THEN v ELSE EvalRules_lenient(Tail(rules), d)

\* auth.py:40-42: the rules in order, stopping at the first that fails.
RECURSIVE EvalRules(_, _)
EvalRules(rules, d) ==
    IF rules = <<>> THEN Verdict("allow")
    ELSE LET v == EvalRule(Head(rules), d)
         IN  IF v.kind = "allow" THEN EvalRules(Tail(rules), d) ELSE v

\* A bug: the branches of case_layer swapped.
case_target_swapped(layer, service, c) ==
    IF c THEN service ELSE layer.condition_service

\* views.py:170-173.
case_target(layer, service, c) ==
    IF c THEN layer.condition_service ELSE service

\* auth.py:23-26: the credentials are read from the context, key by key.
RECURSIVE MissingKey(_, _)
MissingKey(keys, d) ==
    IF keys = <<>> THEN None
    ELSE IF Head(keys) \notin DOMAIN d THEN StrV(Head(keys))
    ELSE MissingKey(Tail(keys), d)

(***************************************************************************)
(* The interpreter.                                                        *)
(***************************************************************************)
Event(ev, who) == [ev |-> ev, who |-> who]
Push(t, frame) == [stack EXCEPT ![t] = <<frame>> \o @]
Pop(t) == [stack EXCEPT ![t] = Tail(@)]
Top(t) == Head(stack[t])

\* The boundary adapter calls the view context_view built (views.py:66).
Receive(t, jobs, limit) ==
    /\ mode[t] = "idle"
    /\ reqno[t] < limit
    /\ \E j \in jobs :
         job' = [job EXCEPT ![t] =
                   [request |-> Request(RequestId(t, reqno[t] + 1), j.method, j.user_id),
                    outers |-> j.outers,
                    terminal |-> j.terminal,
                    service |-> into_service(j.outers, j.terminal),
                    initial |-> j.initial]]
    /\ mode' = [mode EXCEPT ![t] = "enter"]
    /\ reqno' = [reqno EXCEPT ![t] = @ + 1]
    /\ trace' = [trace EXCEPT ![t] = <<>>]
    /\ seen' = [seen EXCEPT ![t] = None]
    /\ result' = [result EXCEPT ![t] = NoResult]
    /\ UNCHANGED <<heap, cvar, reg, stack, pc>>
    /\ UNCHANGED crudvars

\* views.py:67, context.py:12-20: with enter_context(initial_data(...)).
EnterContext(t) ==
    /\ mode[t] = "enter"
    /\ LET r == enter_context_set(heap, cvar, t, job[t].initial, FreshAddr(t, reqno[t]))
       IN  /\ heap' = r.heap
           /\ cvar' = r.cvar
    /\ stack' = Push(t, [kind |-> "enter_context", token |-> cvar[t]])
    /\ mode' = [mode EXCEPT ![t] = "set_request"]
    /\ UNCHANGED <<job, reg, pc, seen, result, reqno, trace>>
    /\ UNCHANGED crudvars

\* views.py:68, context.py:35-38: func(_CONTEXT.set_request(request)).
SetRequest(t) ==
    /\ mode[t] = "set_request"
    /\ LET r == CtxSetItem(heap, cvar, t, HTTP_REQUEST_KEY, job[t].request)
       IN  /\ heap' = r.heap
           /\ mode' = [mode EXCEPT ![t] = IF r.ok THEN "call" ELSE "exc"]
           /\ reg' = [reg EXCEPT ![t] = IF r.ok THEN job[t].service ELSE r.exception]
    /\ UNCHANGED <<cvar, job, stack, pc, seen, result, reqno, trace>>
    /\ UNCHANGED crudvars

IsWrapper(t, kind) ==
    /\ mode[t] = "call"
    /\ reg[t].kind = "wrapper"
    /\ reg[t].layer.kind = kind

\* A terminal service is entered.
CallView(t) ==
    /\ mode[t] = "call"
    /\ reg[t].kind = "view"
    /\ mode' = [mode EXCEPT ![t] = "view"]
    /\ pc' = [pc EXCEPT ![t] = 1]
    /\ trace' = [trace EXCEPT ![t] = Append(@, Event("call", reg[t].name))]
    /\ UNCHANGED <<heap, cvar, job, reg, stack, seen, result, reqno>>
    /\ UNCHANGED crudvars

\* One access of the running view to the context: ctx[key] = v, ctx[key],
\* ctx.get(key) or ctx.request (context.py:30-33).
ViewOp(t) ==
    /\ mode[t] = "view"
    /\ pc[t] <= Len(reg[t].ops)
    /\ LET o == reg[t].ops[pc[t]]
           r == IF o.op = "setitem"
                THEN CtxSetItem(heap, cvar, t, o.key, [by |-> job[t].request.id])
                ELSE IF o.op = "getitem" THEN CtxGetItem(heap, cvar, t, o.key)
                ELSE IF o.op = "get" THEN CtxGet(heap, cvar, t, o.key)
                ELSE CtxGet(heap, cvar, t, HTTP_REQUEST_KEY)
       IN  /\ heap' = r.heap
           /\ IF r.ok
              THEN /\ pc' = [pc EXCEPT ![t] = @ + 1]
                   /\ seen' = [seen EXCEPT ![t] = IF o.op = "setitem" THEN @ ELSE r.value]
                   /\ UNCHANGED <<mode, reg, trace>>
              ELSE /\ mode' = [mode EXCEPT ![t] = "exc"]
                   /\ reg' = [reg EXCEPT ![t] = r.exception]
                   /\ trace' = [trace EXCEPT ![t] = Append(@, Event("raise", reg[t].name))]
                   /\ UNCHANGED <<pc, seen>>
    /\ UNCHANGED <<cvar, job, stack, result, reqno>>
    /\ UNCHANGED crudvars

\* The running view returns its response or raises its failure.
ViewFinish(t) ==
    /\ mode[t] = "view"
    /\ pc[t] > Len(reg[t].ops)
    /\ LET out == reg[t].out
           returns == "ret" \in DOMAIN out
       IN  /\ mode' = [mode EXCEPT ![t] = IF returns THEN "ret" ELSE "exc"]
           /\ reg' = [reg EXCEPT ![t] = IF returns THEN out.ret ELSE out.raise]
           /\ trace' = [trace EXCEPT ![t] =
                          Append(@, Event(IF returns THEN "return" ELSE "raise",
                                          reg[t].name))]
    /\ pc' = [pc EXCEPT ![t] = 0]
    /\ UNCHANGED <<heap, cvar, job, stack, seen, result, reqno>>
    /\ UNCHANGED crudvars

\* views.py:124-136.
CallDefaultHandler(t) ==
    /\ mode[t] = "call"
    /\ reg[t].kind = "default_exception_handler"
    /\ LET r == CtxGetItem(heap, cvar, t, EXCEPTION_RESULT_CONTEXT_KEY)
       IN  /\ mode' = [mode EXCEPT ![t] = IF r.ok THEN "ret" ELSE "exc"]
           /\ reg' = [reg EXCEPT ![t] =
                        IF r.ok THEN default_exception_response(r.value)
                        ELSE r.exception]
           /\ trace' = [trace EXCEPT ![t] =
                          @ \o <<Event("call", "default_exception_handler"),
                                 Event(IF r.ok THEN "return" ELSE "raise",
                                       "default_exception_handler")>>]
    /\ UNCHANGED <<heap, cvar, job, stack, pc, seen, result, reqno>>
    /\ UNCHANGED crudvars

\* A layer with logic of its own: its pre-logic, then the wrapped service.
CallProbe(t) ==
    /\ IsWrapper(t, "probe_layer")
    /\ trace' = [trace EXCEPT ![t] = Append(@, Event("pre", reg[t].layer.id))]
    /\ stack' = Push(t, [kind |-> "probe", id |-> reg[t].layer.id])
    /\ reg' = [reg EXCEPT ![t] = reg[t].service]
    /\ UNCHANGED <<heap, cvar, job, mode, pc, seen, result, reqno>>
    /\ UNCHANGED crudvars

\* The wrapped service returned: the layer's post-logic, and the response goes up.
ReturnProbe(t) ==
    /\ mode[t] = "ret"
    /\ stack[t] # <<>>
    /\ Top(t).kind = "probe"
    /\ trace' = [trace EXCEPT ![t] = Append(@, Event("post", Top(t).id))]
    /\ stack' = Pop(t)
    /\ UNCHANGED <<heap, cvar, job, mode, reg, pc, seen, result, reqno>>
    /\ UNCHANGED crudvars

\* The wrapped service raised: the failure passes through the layer.
RaiseProbe(t) ==
    /\ mode[t] = "exc"
    /\ stack[t] # <<>>
    /\ Top(t).kind = "probe"
    /\ stack' = Pop(t)
    /\ UNCHANGED <<heap, cvar, job, mode, reg, pc, seen, result, reqno, trace>>
    /\ UNCHANGED crudvars

\* views.py:150-151: try: return service(ctx).
CallException(t) ==
    /\ IsWrapper(t, "exception_layer")
    /\ stack' = Push(t, [kind |-> "try", layer |-> reg[t].layer])
    /\ reg' = [reg EXCEPT ![t] = reg[t].service]
    /\ UNCHANGED <<heap, cvar, job, mode, pc, seen, result, reqno, trace>>
    /\ UNCHANGED crudvars

\* views.py:151: the wrapped service returned, nothing was caught.
ReturnTry(t) ==
    /\ mode[t] = "ret"
    /\ stack[t] # <<>>
    /\ Top(t).kind = "try"
    /\ stack' = Pop(t)
    /\ UNCHANGED <<heap, cvar, job, mode, reg, pc, seen, result, reqno, trace>>
    /\ UNCHANGED crudvars

\* views.py:152-154: except Exception as e: ctx[result_ctx_key] = e;
\* return exception_service(ctx).
Catch(t) ==
    /\ mode[t] = "exc"
    /\ stack[t] # <<>>
    /\ Top(t).kind = "try"
    /\ LET r == CtxSetItem(heap, cvar, t, Top(t).layer.result_ctx_key, reg[t])
       IN  /\ heap' = r.heap
           /\ mode' = [mode EXCEPT ![t] = IF r.ok THEN "call" ELSE "exc"]
           /\ reg' = [reg EXCEPT ![t] =
                        IF r.ok THEN Top(t).layer.exception_service ELSE r.exception]
    /\ stack' = Pop(t)
    /\ trace' = [trace EXCEPT ![t] = Append(@, Event("catch", "exception_layer"))]
    /\ UNCHANGED <<cvar, job, pc, seen, result, reqno>>
    /\ UNCHANGED crudvars

\* views.py:170-173: the condition once, then one of the two services.
CallCase(t) ==
    /\ IsWrapper(t, "case_layer")
    /\ LET b == ContextVarGet(cvar, t)
           c == EvalCondition(reg[t].layer.condition, heap[b.addr])
       IN  /\ reg' = [reg EXCEPT ![t] = case_target(reg[t].layer, reg[t].service, c)]
           /\ trace' = [trace EXCEPT ![t] =
                          Append(@, Event("condition", IF c THEN "true" ELSE "false"))]
    /\ UNCHANGED <<heap, cvar, job, mode, stack, pc, seen, result, reqno>>
    /\ UNCHANGED crudvars

\* auth.py:23-28: the principal, or the anonymous user, under user_ctx_key.
CallAuthentication(t) ==
    /\ IsWrapper(t, "authentication_layer")
    /\ LET b == ContextVarGet(cvar, t)
           d == heap[b.addr]
           missing == MissingKey(reg[t].layer.kwarg_keys, d)
           principal == authenticate(DictGet(d, HTTP_REQUEST_KEY))
           user == IF principal = None THEN AnonymousUser ELSE principal
       IN  IF missing = None
           THEN /\ heap' = [heap EXCEPT ![b.addr] =
                              DictSet(@, reg[t].layer.user_ctx_key, user)]
                /\ reg' = [reg EXCEPT ![t] = reg[t].service]
                /\ UNCHANGED mode
           ELSE /\ mode' = [mode EXCEPT ![t] = "exc"]
                /\ reg' = [reg EXCEPT ![t] = KeyError(missing.str)]
                /\ UNCHANGED heap
    /\ UNCHANGED <<cvar, job, stack, pc, seen, result, reqno, trace>>
    /\ UNCHANGED crudvars

\* auth.py:40-44: view403 at the first rule that fails, else the service.
CallPermission(t) ==
    /\ IsWrapper(t, "permission_layer")
    /\ LET b == ContextVarGet(cvar, t)
           v == EvalRules(reg[t].layer.rules, heap[b.addr])
       IN  /\ mode' = [mode EXCEPT ![t] = IF v.kind = "raise" THEN "exc" ELSE "call"]
           /\ reg' = [reg EXCEPT ![t] =
                        IF v.kind = "raise" THEN v.exception
                        ELSE IF v.kind = "deny" THEN view403
                        ELSE reg[t].service]
           /\ trace' = [trace EXCEPT ![t] = Append(@, Event("rules", v.kind))]
    /\ UNCHANGED <<heap, cvar, job, stack, pc, seen, result, reqno>>
    /\ UNCHANGED crudvars

\* views.py:67-68, context.py:21: the service returned; the generator of
\* enter_context is resumed and resets the ContextVar.
ExitContext(t) ==
    /\ mode[t] = "ret"
    /\ stack[t] # <<>>
    /\ Top(t).kind = "enter_context"
    /\ cvar' = enter_context_exit(cvar, t, Top(t).token, FALSE)
    /\ stack' = Pop(t)
    /\ heap' = Collect(heap, cvar', stack')
    /\ result' = [result EXCEPT ![t] = ResponseResult(reg[t])]
    /\ mode' = [mode EXCEPT ![t] = "idle"]
    /\ reg' = [reg EXCEPT ![t] = None]
    /\ UNCHANGED <<job, pc, seen, reqno, trace>>
    /\ UNCHANGED crudvars

\* views.py:67-68, context.py:20: the service raised; the failure is thrown
\* into the generator of enter_context and leaves the view.
EscapeContext(t) ==
    /\ mode[t] = "exc"
    /\ stack[t] # <<>>
    /\ Top(t).kind = "enter_context"
    /\ cvar' = enter_context_exit(cvar, t, Top(t).token, TRUE)
    /\ stack' = Pop(t)
    /\ heap' = Collect(heap, cvar', stack')
    /\ result' = [result EXCEPT ![t] = FailureResult(reg[t])]
    /\ mode' = [mode EXCEPT ![t] = "idle"]
    /\ reg' = [reg EXCEPT ![t] = None]
    /\ UNCHANGED <<job, pc, seen, reqno, trace>>
    /\ UNCHANGED crudvars

(***************************************************************************)
(* The services the requests are routed to.                                *)
(***************************************************************************)
SeqsUpTo(S, n) == UNION {[1..k -> S] : k \in 0..n}

OkResponse == HttpResponse("OK", 200)
PlainException == Exc("boom", <<>>)

SetItem(key) == [op |-> "setitem", key |-> key]
GetItem(key) == [op |-> "getitem", key |-> key]
Get(key) == [op |-> "get", key |-> key]
GetRequest == [op |-> "request"]

\* Terminal services, alternates of case layers and error handlers.
S_ok == View("S", <<>>, Returns(OkResponse))
S_rw == View("S", <<SetItem("k"), GetItem("k"), GetRequest>>, Returns(OkResponse))
S_raise(e) == View("S", <<>>, Raises(e))
S_wraise == View("S", <<SetItem("k"), Get("pk")>>, Raises(PlainException))
S_read == View("S", <<Get("k"), GetRequest>>, Returns(OkResponse))
A_ok == View("A", <<>>, Returns(HttpResponse("A", 200)))
A_raise == View("A", <<>>, Raises(View2Exception))
H_raise == View("H", <<>>, Raises(Exc("handler failed", <<>>)))

DefaultExceptionLayer ==
    exception_layer(<<>>, default_exception_handler, EXCEPTION_RESULT_CONTEXT_KEY)

LayerPool ==
    {probe_layer("L1"), probe_layer("L2"), noop_layer,
     DefaultExceptionLayer,
     exception_layer(<<probe_layer("LH")>>, H_raise, EXCEPTION_RESULT_CONTEXT_KEY),
     case_layer([kind |-> "has_key", key |-> "pk"], <<probe_layer("LA")>>, A_ok),
     method_layer("PUT", <<DefaultExceptionLayer>>, A_raise),
     authentication_layer(<<>>, USER_CONTEXT_KEY),
     is_authenticated_layer(USER_CONTEXT_KEY),
     has_permissions_layer({ViewPerm}, USER_CONTEXT_KEY),
     permission_layer(<<>>),
     permission_layer(<<[kind |-> "const", value |-> TRUE],
                        [kind |-> "const", value |-> FALSE]>>)}

\* tests/urls.py:72-80, the layers of view5.
View5Layers ==
    <<DefaultExceptionLayer,
      authentication_layer(<<>>, USER_CONTEXT_KEY),
      is_authenticated_layer(USER_CONTEXT_KEY),
      has_permissions_layer({ViewPerm}, USER_CONTEXT_KEY)>>

Job(outers, terminal, method, user_id, initial) ==
    [outers |-> outers, terminal |-> terminal, method |-> method,
     user_id |-> user_id, initial |-> initial]

Methods == {"GET", "PUT"}

\* Every list of layers up to MaxLayers long around a few services, ...
GeneralJobs ==
    {Job(o, s, m, u, i) :
        o \in SeqsUpTo(LayerPool, MaxLayers),
        s \in {S_ok, S_rw, S_raise(PlainException), S_raise(View2Exception)},
        m \in Methods, u \in UserIds, i \in InitialAddrs}
\* ... every failure under the default handler, ...
HandlerJobs ==
    {Job(o, S_raise(e), "GET", "", None) :
        o \in {<<>>, <<DefaultExceptionLayer>>}, e \in Exceptions}
\* ... and the routes of tests/urls.py.
RouteJobs ==
    {Job(View5Layers, S_ok, "GET", u, EmptyInitial) : u \in UserIds}
\* tests/urls.py:87-98, the route view4/: method layers for distinct methods
\* around a terminal service that answers 404.
RouteMethods == {"GET", "PUT", "PATCH"}
M_ok(m) == View(m, <<>>, Returns(HttpResponse(m, 200)))
M_raise(m, e) == View(m, <<>>, Raises(e))
S_404 == View("S", <<>>, Returns(view404_response))
MethodLayers ==
    UNION {{method_layer(m, <<>>, M_ok(m)),
            method_layer(m, <<DefaultExceptionLayer>>, M_raise(m, View2Exception)),
            method_layer(m, <<>>, M_raise(m, PlainException))} : m \in RouteMethods}
DistinctMethods(o) ==
    \A i, j \in 1..Len(o) : i # j => o[i].condition.method # o[j].condition.method
MethodJobs ==
    {Job(o, S_404, m, "", EmptyInitial) :
        o \in {q \in SeqsUpTo(MethodLayers, MaxLayers) : q # <<>> /\ DistinctMethods(q)},
        m \in RouteMethods}
\* The chain of view5 (tests/urls.py:72-80) with every list of permissions,
\* with and without the exception_layer around it, for every user.
Perms == {ViewPerm, ChangePerm}
AuthUserIds == UserIds \cup {"carol"}
AuthLayers(permissions) ==
    <<authentication_layer(<<>>, USER_CONTEXT_KEY),
      is_authenticated_layer(USER_CONTEXT_KEY),
      has_permissions_layer(permissions, USER_CONTEXT_KEY)>>
AuthJobs ==
    {Job(pre \o AuthLayers(P), S_ok, "GET", u, EmptyInitial) :
        pre \in {<<>>, <<DefaultExceptionLayer>>}, P \in SUBSET Perms,
        u \in AuthUserIds}
\* exception_layer with an error-handling service and a result key of the
\* caller's: the service reads the failure under the key and answers.
H_ok(key) == View("H", <<GetItem(key)>>, Returns(HttpResponse("handled", 200)))
ResultKeys == {EXCEPTION_RESULT_CONTEXT_KEY, "err"}
ExceptionJobs ==
    {Job(<<exception_layer(<<>>, h, k)>>, s, "GET", "", i) :
        h \in {default_exception_handler} \cup {H_ok(x) : x \in ResultKeys},
        k \in ResultKeys,
        s \in {S_ok, S_rw} \cup {S_raise(e) : e \in Exceptions},
        i \in InitialAddrs}
LayerJobs == MethodJobs \cup AuthJobs \cup ExceptionJobs
ChainJobs == GeneralJobs \cup HandlerJobs \cup RouteJobs

\* Views that read and write the context, for the requests of several threads.
CtxJobs ==
    {Job(<<>>, s, "GET", "", i) : s \in {S_rw, S_wraise, S_read}, i \in InitialAddrs}

Step(t) ==
    \/ EnterContext(t)
    \/ SetRequest(t)
    \/ CallView(t)
    \/ ViewOp(t)
    \/ ViewFinish(t)
    \/ CallDefaultHandler(t)
    \/ CallProbe(t)
    \/ ReturnProbe(t)
    \/ RaiseProbe(t)
    \/ CallException(t)
    \/ ReturnTry(t)
    \/ Catch(t)
    \/ CallCase(t)
    \/ CallAuthentication(t)
    \/ CallPermission(t)
    \/ ExitContext(t)
    \/ EscapeContext(t)

\* One thread of control, one request through any of the chains.
Next == Receive(MainThread, ChainJobs, 1) \/ Step(MainThread)
Spec == Init /\ [][Next]_vars

LayerStep(t) ==
    \/ EnterContext(t)
    \/ SetRequest(t)
    \/ CallView(t)
    \/ ViewOp(t)
    \/ ViewFinish(t)
    \/ CallDefaultHandler(t)
    \/ CallException(t)
    \/ ReturnTry(t)
    \/ Catch(t)
    \/ CallCase(t)
    \/ CallAuthentication(t)
    \/ CallPermission(t)
    \/ ExitContext(t)
    \/ EscapeContext(t)

\* One request through the chains of method layers, of the layers of auth.py
\* and of exception_layer.
NextLayers == Receive(MainThread, LayerJobs, 1) \/ LayerStep(MainThread)
SpecLayers == Init /\ [][NextLayers]_vars

CtxStep(t) ==
    \/ EnterContext(t)
    \/ SetRequest(t)
    \/ CallView(t)
    \/ ViewOp(t)
    \/ ViewFinish(t)
    \/ ExitContext(t)
    \/ EscapeContext(t)

\* Several threads of control, each processing requests one after another.
NextCtx == \E t \in Threads : Receive(t, CtxJobs, MaxRequests) \/ CtxStep(t)
SpecCtx == Init /\ [][NextCtx]_vars

(***************************************************************************)
(* The CRUD service builders (crud.py).  The pieces they are built from:   *)
(* Python's int() over the text of a query parameter, itertools.islice,    *)
(* the filterers, mutators and serializers of crud.py, and the table of    *)
(* the model they work on.                                                 *)
(***************************************************************************)
\* Bounds of the CRUD model.
MaxRows == 2     \* rows of the table before the first call
MaxCalls == 2    \* services called one after another
MaxExtra == 2    \* rows beyond the default limit and beyond the cap

\* crud.py:29, 172, 177, 181.
META_CONTEXT_KEY == "__meta__"
DEFAULT_LIMIT == 10
DEFAULT_OFFSET == 0
MAX_LIMIT == 500

Min(a, b) == IF a < b THEN a ELSE b

Returned(value) == [ok |-> TRUE, value |-> value]
Raised(exception) == [ok |-> FALSE, exception |-> exception]

\* Failures Python and Django raise on their own.
ValueError(msg) == Exc(msg, [type |-> "ValueError"])
TypeError(msg) == Exc(msg, [type |-> "TypeError"])
AttributeError(msg) == Exc(msg, [type |-> "AttributeError"])

\* The text of a query parameter is a sequence of characters.
Digits == <<"0", "1", "2", "3", "4", "5", "6", "7", "8", "9">>
IsDigit(c) == \E i \in 1..10 : Digits[i] = c
DigitOf(c) == (CHOOSE i \in 1..10 : Digits[i] = c) - 1

RECURSIVE lstrip(_)
lstrip(s) == IF s # <<>> /\ Head(s) = " " THEN lstrip(Tail(s)) ELSE s
RECURSIVE rstrip(_)
rstrip(s) ==
    IF s # <<>> /\ s[Len(s)] = " " THEN rstrip(SubSeq(s, 1, Len(s) - 1)) ELSE s
strip(s) == rstrip(lstrip(s))

\* The digits of an integer literal: single underscores between digits only.
ValidDigits(s) ==
    /\ s # <<>>
    /\ IsDigit(s[1])
    /\ IsDigit(s[Len(s)])
    /\ \A i \in 1..Len(s) :
          /\ IsDigit(s[i]) \/ s[i] = "_"
          /\ s[i] = "_" => s[i + 1] # "_"

RECURSIVE DigitsValue(_, _)
DigitsValue(s, acc) ==
    IF s = <<>> THEN acc
    ELSE DigitsValue(Tail(s),
                     IF Head(s) = "_" THEN acc ELSE 10 * acc + DigitOf(Head(s)))

\* int(x) of crud.py:172, 177: x is the int default or the parameter's text;
\* blanks around the literal and one sign before it are accepted.
int(x) ==
    IF "int" \in DOMAIN x THEN Returned(x.int)
    ELSE LET s == strip(x.chars)
             signed == s # <<>> /\ Head(s) \in {"+", "-"}
             body == IF signed THEN Tail(s) ELSE s
         IN  IF ~ValidDigits(body)
             THEN Raised(ValueError("invalid literal for int() with base 10"))
             ELSE Returned(IF signed /\ Head(s) = "-"
                           THEN 0 - DigitsValue(body, 0)
                           ELSE DigitsValue(body, 0))

\* request.GET.get(key, default): the text of the parameter, or the default.
QueryGet(GET, key, default) ==
    IF key \in DOMAIN GET THEN [chars |-> GET[key]] ELSE IntV(default)

\* crud.py:171-174 and 176-179: int(...) except (TypeError, ValueError).
IntParam(GET, key, default) ==
    LET r == int(QueryGet(GET, key, default))
    IN  IF r.ok THEN r.value ELSE default

\* The items an islice object yields: those at positions start .. stop - 1.
Slice(items, start, stop) ==
    LET n == Min(stop, Len(items)) - start
    IN  [i \in 1..(IF n > 0 THEN n ELSE 0) |-> items[start + i]]

QuerySet(rows) == [kind |-> "QuerySet", items |-> rows]

\* itertools.islice(iterable, start, stop): the indices are checked first,
\* then the iterator of the iterable is taken.
islice(iterable, start, stop) ==
    IF start < 0 \/ stop < 0
    THEN Raised(ValueError("Indices for islice() must be None or an integer: 0 <= x <= sys.maxsize."))
    ELSE IF iterable = None
    THEN Raised(TypeError("'NoneType' object is not iterable"))
    ELSE Returned([kind |-> "islice", items |-> Slice(iterable.items, start, stop)])

\* A bug: the limit not capped at 500.
limit_offset_filterer_uncapped(GET, limit_kwarg, offset_kwarg, iterable) ==
    LET limit == IntParam(GET, limit_kwarg, DEFAULT_LIMIT)
        offset == IntParam(GET, offset_kwarg, DEFAULT_OFFSET)
    IN  islice(iterable, offset, offset + limit)

\* crud.py:170-181, the inner function of limit_offset_filterer.
limit_offset_filterer(GET, limit_kwarg, offset_kwarg, iterable) ==
    LET limit == IntParam(GET, limit_kwarg, DEFAULT_LIMIT)
        offset == IntParam(GET, offset_kwarg, DEFAULT_OFFSET)
    IN  islice(iterable, offset, offset + Min(limit, MAX_LIMIT))

\* Filterers, mutators and serializers as values.
model_all_filterer == [kind |-> "model_all_filterer"]
model_set_meta_count_filterer(meta_key) ==
    [kind |-> "model_set_meta_count_filterer", meta_key |-> meta_key]
limit_offset_filterer_of(limit_kwarg, offset_kwarg) ==
    [kind |-> "limit_offset_filterer", limit_kwarg |-> limit_kwarg,
     offset_kwarg |-> offset_kwarg]
model_pk_filterer(pk_kwarg) == [kind |-> "model_pk_filterer", pk_kwarg |-> pk_kwarg]
model_mutator == [kind |-> "model_mutator"]
model_delete_mutator == [kind |-> "model_delete_mutator"]
model_serializer == [kind |-> "model_serializer"]
model_list_serializer(meta_key) == [kind |-> "model_list_serializer", meta_key |-> meta_key]

Row(pk, name) == [pk |-> pk, name |-> name]

\* What a filterer hands back, with the dictionary of the context after it.
Filtered(r, d) == [ret |-> r, data |-> d]

\* crud.py:149-191: one filterer called with the context and instances.
ApplyFilterer(f, d, GET, rows, ins) ==
    IF f.kind = "model_all_filterer" THEN Filtered(Returned(QuerySet(rows)), d)
    ELSE IF f.kind = "limit_offset_filterer"
    THEN Filtered(limit_offset_filterer(GET, f.limit_kwarg, f.offset_kwarg, ins), d)
    ELSE IF f.kind = "model_pk_filterer"
    THEN IF f.pk_kwarg \notin DOMAIN d THEN Filtered(Raised(KeyError(f.pk_kwarg)), d)
         ELSE IF ins = None \/ ins.kind # "QuerySet"
         THEN Filtered(Raised(AttributeError("object has no attribute 'filter'")), d)
         ELSE Filtered(Returned(QuerySet(SelectSeq(ins.items,
                                    LAMBDA r : r.pk = d[f.pk_kwarg].int))), d)
    ELSE \* model_set_meta_count_filterer
         IF ins = None \/ ins.kind # "QuerySet"
         THEN Filtered(Raised(AttributeError("object has no attribute 'count'")), d)
         ELSE Filtered(Returned(ins),
                       DictSet(d, f.meta_key,
                               DictSet(IF f.meta_key \in DOMAIN d THEN d[f.meta_key]
                                       ELSE <<>>,
                                       "count", Len(ins.items))))

\* views.py:42-55.
view400_response(details) ==
    JsonResponse([message |-> "failed to validate your requests",
                  code |-> IntV(400), details |-> details], 400)

\* HttpResponse(content=content, content_type=content_type, status=status).
ContentResponse(content, content_type, status) ==
    [status |-> status, body |-> [content |-> content], content_type |-> content_type]

\* The rows after form.save(): a new row, or the row of the instance changed.
SaveRow(rows, row) ==
    IF \E i \in 1..Len(rows) : rows[i].pk = row.pk
    THEN [i \in 1..Len(rows) |-> IF rows[i].pk = row.pk THEN row ELSE rows[i]]
    ELSE Append(rows, row)
DeleteRow(rows, pk) == SelectSeq(rows, LAMBDA r : r.pk # pk)

\* What a mutator hands back (instance, error), with the table after it.
Mutated(r, rows, pk) == [ret |-> r, table |-> rows, nextpk |-> pk]

\* crud.py:194-235: the mutator called with the context and the instance.
ApplyMutator(m, form, rows, pk, ins) ==
    IF m.kind = "model_mutator"
    THEN IF form.valid
         THEN LET saved == IF ins = None THEN Row(pk, form.name)
                           ELSE Row(ins.pk, form.name)
              IN  Mutated(Returned([instance |-> saved, error |-> None]),
                          SaveRow(rows, saved),
                          IF ins = None THEN pk + 1 ELSE pk)
         ELSE Mutated(Returned([instance |-> None,
                                error |-> view400_response([name |-> "required"])]),
                      rows, pk)
    ELSE \* model_delete_mutator
         IF ins = None
         THEN Mutated(Raised(AttributeError("'NoneType' object has no attribute 'delete'")),
                      rows, pk)
         ELSE Mutated(Returned([instance |-> ins, error |-> None]),
                      DeleteRow(rows, ins.pk), pk)

Serialized(row) ==
    [pk |-> row.pk, model |-> "test_app.testmodel", fields |-> [name |-> row.name]]

\* crud.py:127-146: the serializer called with the context and its argument.
ApplySerializer(s, d, arg) ==
    IF s.kind = "model_serializer"
    THEN IF arg = None
         THEN Raised(AttributeError("'NoneType' object has no attribute '_meta'"))
         ELSE Returned([content_type |-> "application/json", content |-> Serialized(arg)])
    ELSE IF arg = None
         THEN Raised(TypeError("'NoneType' object is not iterable"))
    ELSE LET results == [i \in 1..Len(arg.items) |-> Serialized(arg.items[i])]
         IN  Returned([content_type |-> "application/json",
                       content |-> IF s.meta_key \in DOMAIN d
                                   THEN [meta |-> d[s.meta_key], results |-> results]
                                   ELSE [results |-> results]])

\* The services crud.py builds, as values.
detail_service(serializer, filterers) ==
    [kind |-> "detail_service", serializer |-> serializer, filterers |-> filterers]
list_service(serializer, filterers) ==
    [kind |-> "list_service", serializer |-> serializer, filterers |-> filterers]
create_service(mutater, serializer) ==
    [kind |-> "create_service", mutater |-> mutater, serializer |-> serializer,
     filterers |-> <<>>]
update_service(mutater, serializer, filterers) ==
    [kind |-> "update_service", mutater |-> mutater, serializer |-> serializer,
     filterers |-> filterers]
delete_service(mutater, filterers) ==
    [kind |-> "delete_service", mutater |-> mutater, filterers |-> filterers]

\* A bug: the last element of the collection taken instead of the first.
first_instance_last(ins) ==
    IF ins = None THEN Raised(TypeError("'NoneType' object is not iterable"))
    ELSE Returned(IF ins.items = <<>> THEN None ELSE ins.items[Len(ins.items)])

\* crud.py:39-41: instance = None; for instance in instances: break.
first_instance(ins) ==
    IF ins = None THEN Raised(TypeError("'NoneType' object is not iterable"))
    ELSE Returned(IF ins.items = <<>> THEN None ELSE Head(ins.items))

\* A bug: the success status of update_service for create_service as well.
success_status_200(kind) == 200

\* crud.py:47, 60, 73, 99: 201 for create_service, the default 200 elsewhere.
success_status(kind) == IF kind = "create_service" THEN 201 ELSE 200

\* An event of a CRUD service: a filterer, the mutator or the serializer called.
FiltererCall(i, arg, ret) == [op |-> "filterer", i |-> i, arg |-> arg, ret |-> ret]
MutatorCall(arg) == [op |-> "mutater", arg |-> arg]
SerializerCall(arg) == [op |-> "serializer", arg |-> arg]

\* The service ends: what it returned or raised goes to its caller.
Finish(o) ==
    /\ outcome' = o
    /\ cpc' = "idle"

\* A service built by crud.py is called with the context of a request.
CallService(jobs) ==
    /\ cpc = "idle"
    /\ ncalls < MaxCalls
    /\ \E j \in jobs :
         /\ svc' = j.service
         /\ crequest' = [GET |-> j.GET, form |-> j.form]
         /\ cdata' = j.kwargs
         /\ cpc' = IF j.service.kind = "create_service" THEN "mutate" ELSE "filter"
    /\ fidx' = 1
    /\ instances' = None
    /\ instance' = None
    /\ error' = None
    /\ calls' = <<>>
    /\ outcome' = NoResult
    /\ ncalls' = ncalls + 1
    /\ UNCHANGED <<table, nextpk>>
    /\ UNCHANGED corevars

\* crud.py:35-37, 55-57, 83-85, 107-109: instances = filterer(ctx, instances).
CallFilterer ==
    /\ cpc = "filter"
    /\ fidx <= Len(svc.filterers)
    /\ LET r == ApplyFilterer(svc.filterers[fidx], cdata, crequest.GET, table, instances)
       IN  /\ cdata' = r.data
           /\ IF r.ret.ok
              THEN /\ instances' = r.ret.value
                   /\ fidx' = fidx + 1
                   /\ calls' = Append(calls, FiltererCall(fidx, instances, r.ret.value))
                   /\ UNCHANGED <<cpc, outcome>>
              ELSE /\ Finish(FailureResult(r.ret.exception))
                   /\ calls' = Append(calls, FiltererCall(fidx, instances, None))
                   /\ UNCHANGED <<instances, fidx>>
    /\ UNCHANGED <<table, nextpk, svc, crequest, instance, error, ncalls>>
    /\ UNCHANGED corevars

\* crud.py:39-44, 87-92, 111-116: the first element, view404(ctx) without one.
FirstInstance ==
    /\ cpc = "filter"
    /\ fidx > Len(svc.filterers)
    /\ svc.kind \in {"detail_service", "update_service", "delete_service"}
    /\ LET r == first_instance(instances)
       IN  IF ~r.ok
           THEN /\ Finish(FailureResult(r.exception))
                /\ UNCHANGED instance
           ELSE /\ instance' = r.value
                /\ IF r.value = None
                   THEN Finish(ResponseResult(view404_response))
                   ELSE /\ cpc' = IF svc.kind = "detail_service"
                                  THEN "serialize" ELSE "mutate"
                        /\ UNCHANGED outcome
    /\ UNCHANGED <<table, nextpk, svc, crequest, cdata, fidx, instances, error,
                   calls, ncalls>>
    /\ UNCHANGED corevars

\* crud.py:55-59: list_service hands the whole collection to the serializer.
AllInstances ==
    /\ cpc = "filter"
    /\ fidx > Len(svc.filterers)
    /\ svc.kind = "list_service"
    /\ cpc' = "serialize"
    /\ UNCHANGED <<table, nextpk, svc, crequest, cdata, fidx, instances, instance,
                   error, calls, outcome, ncalls>>
    /\ UNCHANGED corevars

\* crud.py:68-70, 94-96, 118-122: the mutator, then its error as the response,
\* or view204(ctx) in delete_service.
CallMutator ==
    /\ cpc = "mutate"
    /\ LET r == ApplyMutator(svc.mutater, crequest.form, table, nextpk, instance)
       IN  /\ table' = r.table
           /\ nextpk' = r.nextpk
           /\ calls' = Append(calls, MutatorCall(instance))
           /\ IF ~r.ret.ok
              THEN /\ Finish(FailureResult(r.ret.exception))
                   /\ UNCHANGED <<instance, error>>
              ELSE /\ instance' = IF svc.kind = "delete_service" THEN instance
                                  ELSE r.ret.value.instance
                   /\ error' = r.ret.value.error
                   /\ IF r.ret.value.error # None
                      THEN Finish(ResponseResult(r.ret.value.error))
                      ELSE IF svc.kind = "delete_service"
                      THEN Finish(ResponseResult(view204_response))
                      ELSE /\ cpc' = "serialize"
                           /\ UNCHANGED outcome
    /\ UNCHANGED <<svc, crequest, cdata, fidx, instances, ncalls>>
    /\ UNCHANGED corevars

\* crud.py:46-47, 59-60, 72-73, 98-99: the serializer and the response.
CallSerializer ==
    /\ cpc = "serialize"
    /\ LET arg == IF svc.kind = "list_service" THEN instances ELSE instance
           r == ApplySerializer(svc.serializer, cdata, arg)
       IN  /\ calls' = Append(calls, SerializerCall(arg))
           /\ Finish(IF r.ok
                     THEN ResponseResult(ContentResponse(r.value.content,
                                                         r.value.content_type,
                                                         success_status(svc.kind)))
                     ELSE FailureResult(r.exception))
    /\ UNCHANGED <<table, nextpk, svc, crequest, cdata, fidx, instances, instance,
                   error, ncalls>>
    /\ UNCHANGED corevars

(***************************************************************************)
(* The calls of the CRUD services.                                         *)
(***************************************************************************)
\* A query parameter: its text, or absent from the query string.
Text(chars) == [chars |-> chars]
Absent == [absent |-> TRUE]
QueryDict(limit, offset) ==
    LET q == IF limit = Absent THEN <<>> ELSE DictSet(<<>>, "limit", limit.chars)
    IN  IF offset = Absent THEN q ELSE DictSet(q, "offset", offset.chars)

Rows(n) == [i \in 1..n |-> Row(i, "a")]
Form(valid, name) == [valid |-> valid, name |-> name]
CrudJob(service, GET, kwargs, form) ==
    [service |-> service, GET |-> GET, kwargs |-> kwargs, form |-> form]

\* tests/urls.py:99-147, the filterers of the routes models/ and models/<pk>/,
\* and lists of filterers in other orders.
ListFilterers ==
    <<model_all_filterer, model_set_meta_count_filterer(META_CONTEXT_KEY),
      limit_offset_filterer_of("limit", "offset")>>
DetailFilterers == <<model_all_filterer, model_pk_filterer("pk")>>
InstanceChains ==
    {DetailFilterers, <<model_all_filterer>>, <<>>, <<model_pk_filterer("pk")>>,
     <<model_all_filterer, limit_offset_filterer_of("limit", "offset")>>}
ListChains ==
    {ListFilterers, <<model_all_filterer>>, <<>>,
     <<limit_offset_filterer_of("limit", "offset")>>}
Mutators == {model_mutator, model_delete_mutator}

CrudServices ==
    {detail_service(model_serializer, f) : f \in InstanceChains}
    \cup {list_service(model_list_serializer(META_CONTEXT_KEY), f) : f \in ListChains}
    \cup {create_service(m, model_serializer) : m \in Mutators}
    \cup {update_service(m, model_serializer, f) : m \in Mutators, f \in InstanceChains}
    \cup {delete_service(m, f) : m \in Mutators, f \in InstanceChains}

CrudQueries ==
    {QueryDict(Absent, Absent), QueryDict(Text(<<"1">>), Text(<<"1">>)),
     QueryDict(Absent, Text(<<"-", "1">>))}
CrudKwargs == {<<>>} \cup {[pk |-> IntV(n)] : n \in 1..(MaxRows + 1)}
CrudForms == {Form(TRUE, "n"), Form(FALSE, "")}
CrudJobs ==
    {CrudJob(s, q, k, f) :
        s \in CrudServices, q \in CrudQueries, k \in CrudKwargs, f \in CrudForms}

\* The texts of the limit and offset parameters.
LimitTexts ==
    {Absent, Text(<<"1">>), Text(<<"2">>), Text(<<"0">>), Text(<<"1", "2">>),
     Text(<<"5", "0", "1">>), Text(<<"6", "0", "0">>), Text(<<"-", "1">>),
     Text(<<"-", "3">>), Text(<<"+", "2">>), Text(<<" ", "3", " ">>),
     Text(<<"a", "b", "c">>), Text(<<>>), Text(<<"1", ".", "5">>),
     Text(<<"1", "_", "1">>)}
OffsetTexts ==
    {Absent, Text(<<"0">>), Text(<<"1">>), Text(<<"2">>), Text(<<"1", "1">>),
     Text(<<"-", "1">>), Text(<<"-", "2">>), Text(<<"+", "1">>), Text(<<"x">>)}
PageSizes ==
    (0..3) \cup (DEFAULT_LIMIT..(DEFAULT_LIMIT + MaxExtra))
           \cup (MAX_LIMIT..(MAX_LIMIT + MaxExtra))
PageJobs ==
    {CrudJob(list_service(model_list_serializer(META_CONTEXT_KEY), f),
             QueryDict(l, o), <<>>, Form(FALSE, "")) :
        f \in {ListFilterers,
               <<model_all_filterer, limit_offset_filterer_of("limit", "offset")>>},
        l \in LimitTexts, o \in OffsetTexts}

InitCrud ==
    /\ InitCore
    /\ table \in {Rows(n) : n \in 0..MaxRows}
    /\ nextpk = Len(table) + 1
    /\ IdleCrud

InitPage ==
    /\ InitCore
    /\ table \in {Rows(n) : n \in PageSizes}
    /\ nextpk = Len(table) + 1
    /\ IdleCrud

\* The services of crud.py called one after another on one table.
NextCrud ==
    \/ CallService(CrudJobs)
    \/ CallFilterer
    \/ FirstInstance
    \/ AllInstances
    \/ CallMutator
    \/ CallSerializer
SpecCrud == InitCrud /\ [][NextCrud]_vars

\* list_service with the pagination filterer over tables of every size.
NextPage ==
    \/ CallService(PageJobs)
    \/ CallFilterer
    \/ AllInstances
    \/ CallSerializer
SpecPage == InitPage /\ [][NextPage]_vars


(***************************************************************************)
(* Vocabulary of the properties.                                           *)
(***************************************************************************)
Running(t) == job[t] # None
Completed(t) == mode[t] = "idle" /\ result[t].kind # "none"
Last(q) == q[Len(q)]
Count(q, e) == Cardinality({i \in 1..Len(q) : q[i] = e})
CountEv(q, ev) == Cardinality({i \in 1..Len(q) : q[i].ev = ev})
Reverse(q) == [i \in 1..Len(q) |-> q[Len(q) + 1 - i]]
IsRaising(view) == "raise" \in DOMAIN view.out

\* L1(L2(...Ln(S)...)), written as the nesting itself.
RECURSIVE Nest(_, _)
Nest(outers, service) ==
    IF outers = <<>> THEN service
    ELSE LET inner == Nest(Tail(outers), service)
         IN  IF Head(outers) = noop_layer THEN inner
             ELSE [kind |-> "wrapper", layer |-> Head(outers), service |-> inner]

OnlyProbes(outers) == \A i \in 1..Len(outers) : outers[i].kind = "probe_layer"
PreEvents(outers) == [i \in 1..Len(outers) |-> Event("pre", outers[i].id)]
PostEvents(outers) == [i \in 1..Len(outers) |-> Event("post", outers[i].id)]

\* The dictionary a request starts with: its initial data and its request.
StartData(t) ==
    DictSet(IF job[t].initial = None THEN <<>> ELSE InitialHeap[job[t].initial],
            HTTP_REQUEST_KEY, job[t].request)
\* The service is about to be called for the first time.
AtStart(t) ==
    /\ mode[t] = "call"
    /\ trace[t] = <<>>
    /\ Len(stack[t]) = 1
    /\ reg[t] = job[t].service

(***************************************************************************)
(* C1.  layers(L1..Ln)(S) and into_service(L1..Ln, service=S) are          *)
(* L1(L2(...Ln(S)...)): the composed service is that nesting, and on a     *)
(* request whose layers have logic of their own the pre-logic runs in the  *)
(* order L1..Ln, then S, then the post-logic in the order Ln..L1.          *)
(***************************************************************************)
C1_NestingOrder ==
    \A t \in Threads :
        Running(t) =>
            /\ job[t].service = Nest(job[t].outers, job[t].terminal)
            /\ (/\ OnlyProbes(job[t].outers)
                /\ Completed(t)
                /\ result[t].kind = "response")
               => trace[t] = PreEvents(job[t].outers)
                             \o <<Event("call", "S"), Event("return", "S")>>
                             \o Reverse(PostEvents(job[t].outers))

C1_Witness ==
    /\ Completed(MainThread)
    /\ job[MainThread].outers = <<probe_layer("L1"), probe_layer("L2")>>
    /\ trace[MainThread][1] = Event("pre", "L1")
    /\ Last(trace[MainThread]) = Event("post", "L1")

(***************************************************************************)
(* C2.  When the scope of enter_context is left, by a return or by a       *)
(* failure, the ContextVar is back at what it was when the scope was       *)
(* entered (the token's old value: a dictionary, or nothing).              *)
(***************************************************************************)
C2_RestoredOnEveryExit ==
    [][\A t \in Threads :
          (mode[t] \in {"ret", "exc"} /\ mode'[t] = "idle")
              => cvar'[t] = Top(t).token]_vars

(***************************************************************************)
(* C3.  Requests running in different threads read and write only their    *)
(* own context: what a request reads was never written by another thread's *)
(* request, every dictionary holds only what its own thread's requests     *)
(* wrote, and the dictionaries of initial data stay as they were.          *)
(***************************************************************************)
OwnedBy(v, t) ==
    /\ "by" \in DOMAIN v => v.by.thread = t
    /\ "id" \in DOMAIN v => v.id.thread = t

C3_NoCrossRequestSharing ==
    /\ \A t \in Threads : OwnedBy(seen[t], t)
    /\ \A a \in DOMAIN heap :
          IF a \in InitialAddrs THEN heap[a] = InitialHeap[a]
          ELSE \A key \in DOMAIN heap[a] : OwnedBy(heap[a][key], a.thread)
    /\ \A t, u \in Threads :
          (t # u /\ cvar[t] # Missing /\ cvar[u] # Missing) => cvar[t] # cvar[u]

C3_Witness ==
    /\ \A t \in Threads : mode[t] = "view" /\ "by" \in DOMAIN seen[t]
    /\ \A t \in Threads : seen[t].by.thread = t

(***************************************************************************)
(* C4.  Whatever the earlier requests of the thread did, failures          *)
(* included, a request starts with exactly its own initial data and its    *)
(* own request object, and reads nothing an earlier request wrote.         *)
(***************************************************************************)
C4_FreshStart ==
    \A t \in Threads :
        /\ AtStart(t) => /\ cvar[t] # Missing
                         /\ heap[cvar[t].addr] = StartData(t)
        /\ Running(t) =>
              /\ "by" \in DOMAIN seen[t] => seen[t].by = job[t].request.id
              /\ "id" \in DOMAIN seen[t] => seen[t] = job[t].request

\* The second request starts while the dictionary of the first, which raised
\* after writing k, is still what the token holds.
C4_Witness ==
    \E t \in Threads :
        /\ AtStart(t)
        /\ reqno[t] > 1
        /\ Top(t).token # Missing
        /\ "k" \in DOMAIN heap[Top(t).token.addr]
        /\ "by" \in DOMAIN heap[Top(t).token.addr]["k"]
        /\ "k" \notin DOMAIN heap[cvar[t].addr]

(***************************************************************************)
(* C5.  Under exception_layer with the default handler, a failure whose    *)
(* status is 500 (status_code = 500, or no status_code) is answered with   *)
(* the message "internal server error"; any other status with the          *)
(* failure's own text.                                                     *)
(***************************************************************************)
StatusOf(e) == IF "status_code" \in DOMAIN e.attrs THEN e.attrs.status_code ELSE 500

UnderDefaultHandler(t) ==
    /\ Running(t)
    /\ job[t].outers = <<DefaultExceptionLayer>>
    /\ IsRaising(job[t].terminal)
    /\ Completed(t)

C6_View2Envelope ==
    \A t \in Threads :
        (UnderDefaultHandler(t) /\ job[t].terminal.out.raise = View2Exception)
            => result[t] = ResponseResult(
                   JsonResponse([message |-> "Something went wrong",
                                 code |-> StrV("SOMETHING_WENT_WRONG"),
                                 details |-> [foo |-> "bar"]], 500))

(***************************************************************************)
(* C7.  case_layer(condition, outers, service=A)(S): the condition is      *)
(* evaluated once, and exactly one of A (condition true) and S (condition  *)
(* false) is invoked, whose response is the one returned.                  *)
(***************************************************************************)
Called(t, who) == Count(trace[t], Event("call", who))
Outcome(view) ==
    IF IsRaising(view) THEN FailureResult(view.out.raise)
    ELSE ResponseResult(view.out.ret)

CaseJob(t) ==
    /\ Running(t)
    /\ Len(job[t].outers) = 1
    /\ job[t].outers[1].kind = "case_layer"

C7_CaseTotal ==
    \A t \in Threads :
        CaseJob(t) =>
            LET c == EvalCondition(job[t].outers[1].condition, StartData(t))
            IN  /\ CountEv(trace[t], "condition") <= 1
                /\ Called(t, "A") + Called(t, "S") <= 1
                /\ Completed(t) =>
                      /\ CountEv(trace[t], "condition") = 1
                      /\ Called(t, "A") = (IF c THEN 1 ELSE 0)
                      /\ Called(t, "S") = (IF c THEN 0 ELSE 1)
                      /\ ~c => result[t] = Outcome(job[t].terminal)
                      /\ (c /\ Count(trace[t], Event("return", "A")) = 1)
                            => result[t] = Outcome(A_ok)

C7_Witness ==
    /\ CaseJob(MainThread)
    /\ Completed(MainThread)
    /\ EvalCondition(job[MainThread].outers[1].condition, StartData(MainThread))
    /\ Called(MainThread, "A") = 1
    /\ result[MainThread] = Outcome(A_ok)

(***************************************************************************)
(* C8.  permission_layer(rules)(S): a rule that returns false gives the    *)
(* 403 envelope and S is not invoked; when every rule returns true, the    *)
(* empty list of rules included, S is invoked once and its response is     *)
(* the one returned.                                                       *)
(***************************************************************************)
ChainDone(t) == mode[t] \in {"ret", "exc"} /\ Len(stack[t]) = 1

PermissionJob(t) ==
    /\ Running(t)
    /\ job[t].outers # <<>>
    /\ Last(job[t].outers).kind = "permission_layer"
    /\ SubSeq(job[t].outers, 1, Len(job[t].outers) - 1)
          \in {<<>>, <<authentication_layer(<<>>, USER_CONTEXT_KEY)>>}

RuleKinds(t) ==
    LET rules == Last(job[t].outers).rules
    IN  {EvalRule(rules[i], heap[cvar[t].addr]).kind : i \in 1..Len(rules)}

Envelope403 ==
    [status |-> 403,
     body |-> [message |-> "you do not have permission to perform this action",
               code |-> IntV(403), details |-> <<>>]]

C8_PermissionGate ==
    \A t \in Threads :
        (PermissionJob(t) /\ ChainDone(t)) =>
            /\ ("deny" \in RuleKinds(t) /\ "raise" \notin RuleKinds(t))
                  => /\ mode[t] = "ret"
                     /\ reg[t] = Envelope403
                     /\ Called(t, "S") = 0
            /\ RuleKinds(t) \subseteq {"allow"}
                  => /\ Called(t, "S") = 1
                     /\ reg[t] = (IF IsRaising(job[t].terminal)
                                  THEN job[t].terminal.out.raise
                                  ELSE job[t].terminal.out.ret)

\* An anonymous principal is refused by is_authenticated_layer.
C8_Witness ==
    /\ PermissionJob(MainThread)
    /\ ChainDone(MainThread)
    /\ Len(job[MainThread].outers) = 2
    /\ RuleKinds(MainThread) = {"deny"}
    /\ reg[MainThread] = Envelope403
    /\ Called(MainThread, "S") = 0

(***************************************************************************)
(* C9.  As claimed: every request ends with exactly one response, produced *)
(* by the terminal service or by one substitute service.                   *)
(***************************************************************************)
StandardChain(outers) ==
    /\ outers # <<>>
    /\ \A i \in 1..Len(outers) :
          outers[i].kind \in {"exception_layer", "case_layer",
                              "authentication_layer", "permission_layer"}

C9_AlwaysOneResponse ==
    \A t \in Threads :
        (Running(t) /\ StandardChain(job[t].outers) /\ Completed(t))
            => /\ result[t].kind = "response"
               /\ CountEv(trace[t], "return") = 1

HasExceptionLayer(outers) ==
    \E i \in 1..Len(outers) : outers[i].kind = "exception_layer"
Producer(t) ==
    LET i == CHOOSE j \in 1..Len(trace[t]) : trace[t][j].ev = "return"
    IN  trace[t][i].who

(***************************************************************************)
(* C9, amended.  A request ends with exactly one response, produced by the *)
(* terminal service or by one substitute service (of a layer that cut the  *)
(* chain short, the terminal service not invoked, or of an exception_layer *)
(* after a failure), or else with a failure and no response at all: a      *)
(* failure raised outside every exception_layer or by an error-handling    *)
(* service.                                                                *)
(***************************************************************************)
C9_OneResponseOrFailure ==
    \A t \in Threads :
        Running(t) =>
            /\ CountEv(trace[t], "return") <= 1
            /\ Completed(t) =>
                  \/ /\ result[t].kind = "response"
                     /\ CountEv(trace[t], "return") = 1
                     /\ Producer(t) \in {"S", "A", "view403", "default_exception_handler"}
                     /\ Producer(t) = "S" => result[t] = Outcome(job[t].terminal)
                     /\ Producer(t) = "A" => /\ result[t] = Outcome(A_ok)
                                            /\ Called(t, "S") = 0
                     /\ Producer(t) = "view403"
                           => /\ result[t].response = Envelope403
                              /\ Called(t, "S") = 0
                     /\ Producer(t) = "default_exception_handler"
                           => Count(trace[t], Event("catch", "exception_layer")) >= 1
                  \/ /\ result[t].kind = "failure"
                     /\ CountEv(trace[t], "return") = 0
                     /\ job[t].outers = <<>> \/ Head(job[t].outers) # DefaultExceptionLayer
                     /\ Last(trace[t]) = Event("raise", "S")
                           => ~HasExceptionLayer(job[t].outers)

\* A failure raised under permission layers only: it leaves the chain and no
\* service has produced a response.
C9_Witness ==
    /\ Completed(MainThread)
    /\ result[MainThread].kind = "failure"
    /\ Len(job[MainThread].outers) = 2
    /\ \A i \in 1..2 : job[MainThread].outers[i].kind = "permission_layer"
    /\ Called(MainThread, "S") = 1
    /\ CountEv(trace[MainThread], "return") = 0

\* A response produced by a substitute service after the terminal one failed.
C9_WitnessSubstitute ==
    /\ Completed(MainThread)
    /\ result[MainThread].kind = "response"
    /\ Producer(MainThread) = "default_exception_handler"
    /\ Called(MainThread, "S") = 1

(***************************************************************************)
(* C10.  Only exception_layer recovers failures.  The failure of the       *)
(* terminal service goes outwards through the layers; the nearest          *)
(* enclosing exception_layer turns it into the response of its             *)
(* error-handling service; the failure of an error-handling service goes   *)
(* on outwards from there; and a failure that meets no exception_layer     *)
(* reaches the boundary adapter unchanged.                                 *)
(***************************************************************************)
HandlerFailure(layer) ==
    LET RECURSIVE terminal(_)
        terminal(sv) == IF sv.kind = "wrapper" THEN terminal(sv.service) ELSE sv
    IN  terminal(layer.exception_service)

RECURSIVE Propagate(_, _, _)
Propagate(outers, i, e) ==
    IF i = 0 THEN FailureResult(e)
    ELSE IF outers[i].kind # "exception_layer" THEN Propagate(outers, i - 1, e)
    ELSE LET h == HandlerFailure(outers[i])
         IN  IF h.kind = "default_exception_handler"
             THEN ResponseResult(default_exception_response(e))
             ELSE IF IsRaising(h) THEN Propagate(outers, i - 1, h.out.raise)
             ELSE ResponseResult(h.out.ret)

TerminalRaised(t) ==
    /\ Running(t)
    /\ Completed(t)
    /\ Count(trace[t], Event("raise", "S")) >= 1

C10_WitnessEscape ==
    /\ TerminalRaised(MainThread)
    /\ job[MainThread].outers = <<probe_layer("L1"), probe_layer("L2")>>
    /\ result[MainThread] = FailureResult(job[MainThread].terminal.out.raise)

(***************************************************************************)
(* C11.  The pagination filterer.                                          *)
(***************************************************************************)
\* The integers the texts of the parameters denote; every other text, and a
\* parameter that is absent, denotes none.
IntegerTexts ==
    {<<Text(<<"0">>), 0>>, <<Text(<<"1">>), 1>>, <<Text(<<"2">>), 2>>,
     <<Text(<<"1", "1">>), 11>>, <<Text(<<"1", "2">>), 12>>,
     <<Text(<<"5", "0", "1">>), 501>>, <<Text(<<"6", "0", "0">>), 600>>,
     <<Text(<<"-", "1">>), -1>>, <<Text(<<"-", "2">>), -2>>,
     <<Text(<<"-", "3">>), -3>>, <<Text(<<"+", "1">>), 1>>,
     <<Text(<<"+", "2">>), 2>>, <<Text(<<" ", "3", " ">>), 3>>,
     <<Text(<<"1", "_", "1">>), 11>>}
IsInteger(p) == \E x \in IntegerTexts : x[1] = p
ValueOr(p, default) ==
    IF IsInteger(p) THEN (CHOOSE x \in IntegerTexts : x[1] = p)[2] ELSE default

ServiceCalled == svc # None
ServiceDone == ServiceCalled /\ cpc = "idle"
Param(key) ==
    IF key \in DOMAIN crequest.GET THEN Text(crequest.GET[key]) ELSE Absent
\* The calls of the pagination filterer in the running service.
PageCalls ==
    {k \in 1..Len(calls) :
        /\ calls[k].op = "filterer"
        /\ svc.filterers[calls[k].i].kind = "limit_offset_filterer"}
\* Positions count from 0: the item at position p of a collection.
ItemAt(collection, p) == collection.items[p + 1]
Positions(collection) == 0..(Len(collection.items) - 1)

\* C11: whenever the pagination filterer returns, what it returns is exactly
\* the items of the incoming collection at positions offset .. offset +
\* min(limit, 500) - 1, in order, where limit is the integer the limit
\* parameter denotes, 10 when it is absent or denotes none, and offset the
\* integer the offset parameter denotes, 0 when it is absent or denotes none,
\* each on its own.
C11_PageSlice ==
    ServiceCalled =>
        \A k \in PageCalls :
            calls[k].ret # None =>
                LET limit == ValueOr(Param("limit"), 10)
                    offset == ValueOr(Param("offset"), 0)
                    last == offset + (IF limit < 500 THEN limit ELSE 500) - 1
                    wanted == {p \in Positions(calls[k].arg) : offset <= p /\ p <= last}
                    got == calls[k].ret.items
                IN  /\ Len(got) = Cardinality(wanted)
                    /\ \A i \in 1..Len(got) :
                          /\ offset + i - 1 \in wanted
                          /\ got[i] = ItemAt(calls[k].arg, offset + i - 1)

\* A limit above 500 on a collection of more than 501 items, from position 1:
\* 500 items come back.
C11_Witness ==
    /\ ServiceDone
    /\ Param("limit") = Text(<<"6", "0", "0">>)
    /\ Param("offset") = Text(<<"1">>)
    /\ \E k \in PageCalls :
          /\ calls[k].ret # None
          /\ Len(calls[k].arg.items) > 501
          /\ Len(calls[k].ret.items) = 500
          /\ calls[k].ret.items[1] = ItemAt(calls[k].arg, 1)

\* limit=1 on a collection of two items: offset=0 gives item 0 only, and
\* offset=1 gives item 1 only; a text that denotes no integer falls back on
\* its own while the other parameter is used.
C11_WitnessTwoItems ==
    /\ ServiceDone
    /\ Param("limit") = Text(<<"a", "b", "c">>)
    /\ Param("offset") = Text(<<"1", "1">>)
    /\ \E k \in PageCalls :
          /\ calls[k].ret # None
          /\ Len(calls[k].arg.items) = 12
          /\ calls[k].ret.items = <<ItemAt(calls[k].arg, 11)>>

(***************************************************************************)
(* C12.  detail_service, update_service and delete_service find their      *)
(* instance.                                                               *)
(***************************************************************************)
InstanceService ==
    ServiceCalled /\ svc.kind \in {"detail_service", "update_service", "delete_service"}
CallsOf(op) == {k \in 1..Len(calls) : calls[k].op = op}
\* Every filterer of the service was called and returned a collection.
Filtered_all ==
    /\ Len(svc.filterers) > 0
    /\ Cardinality(CallsOf("filterer")) = Len(svc.filterers)
    /\ calls[Len(svc.filterers)].ret # None
FinalCollection == calls[Len(svc.filterers)].ret

\* C12: the filterers are called in the order listed, the first with None and
\* each other one with what the one before it returned.  When the service is
\* over and the last filterer returned a collection: without an item in it
\* the response is the 404 envelope and neither the mutator nor the
\* serializer was called; with one, the first item is what the mutator (in
\* update_service and delete_service) or the serializer (in detail_service)
\* was called with.
C12_FirstOrNotFound ==
    InstanceService =>
        /\ \A k \in CallsOf("filterer") :
              /\ k <= Len(svc.filterers)
              /\ calls[k].i = k
              /\ calls[k].arg = IF k = 1 THEN None ELSE calls[k - 1].ret
        /\ (ServiceDone /\ Filtered_all) =>
              IF FinalCollection.items = <<>>
              THEN /\ outcome = ResponseResult(
                         JsonResponse([message |-> "not found", code |-> IntV(404),
                                       details |-> <<>>], 404))
                   /\ CallsOf("mutater") = {}
                   /\ CallsOf("serializer") = {}
              ELSE LET first == FinalCollection.items[1]
                       user == IF svc.kind = "detail_service"
                               THEN "serializer" ELSE "mutater"
                   IN  /\ Cardinality(CallsOf(user)) = 1
                       /\ \A k \in CallsOf(user) : calls[k].arg = first
                       /\ outcome # ResponseResult(view404_response)

\* update_service over two filterers, the second given the collection of the
\* first, with no row of the primary key asked for: 404, nothing mutated.
C12_Witness ==
    /\ ServiceDone
    /\ svc.kind = "update_service"
    /\ svc.filterers = DetailFilterers
    /\ Filtered_all
    /\ calls[1].ret.items # <<>>
    /\ calls[2].arg = calls[1].ret
    /\ FinalCollection.items = <<>>
    /\ outcome.kind = "response"
    /\ outcome.response.status = 404

\* detail_service over a collection of two rows serializes the first one.
C12_WitnessFirst ==
    /\ ServiceDone
    /\ svc.kind = "detail_service"
    /\ Filtered_all
    /\ Len(FinalCollection.items) = 2
    /\ outcome.kind = "response"
    /\ outcome.response.status = 200
    /\ outcome.response.body.content.pk = FinalCollection.items[1].pk

(***************************************************************************)
(* C13.  A chain of method layers for distinct methods.                    *)
(***************************************************************************)
MethodJob(t) ==
    /\ Running(t)
    /\ job[t].outers # <<>>
    /\ \A i \in 1..Len(job[t].outers) :
          /\ job[t].outers[i].kind = "case_layer"
          /\ job[t].outers[i].condition.kind = "method_is"
    /\ DistinctMethods(job[t].outers)
\* The layers of the chain whose method is the method of the request.
Matching(t) ==
    {i \in 1..Len(job[t].outers) :
        job[t].outers[i].condition.method = job[t].request.method}
\* The alternate service handed to a method layer.
Alternate(layer) ==
    IF layer.condition_service.kind = "wrapper"
    THEN layer.condition_service.service ELSE layer.condition_service
\* The method layers of the model are handed exception_layer() as outer
\* layer exactly with the alternates that raise the failure of view2.
Guarded(layer) ==
    /\ IsRaising(Alternate(layer))
    /\ Alternate(layer).out.raise = View2Exception

\* C13: a request is answered by the alternate service of the method layer
\* whose method is the request's, and by the terminal service when no layer's
\* method is; when the alternate service raises and an exception_layer is
\* among its method layer's own outer layers, the response is the error
\* envelope of the failure and not the terminal response.
C13_MethodRouting ==
    \A t \in Threads :
        (MethodJob(t) /\ Completed(t)) =>
            IF Matching(t) = {}
            THEN /\ result[t] = Outcome(job[t].terminal)
                 /\ Called(t, "S") = 1
                 /\ \A m \in RouteMethods : Called(t, m) = 0
            ELSE LET layer == job[t].outers[CHOOSE i \in Matching(t) : TRUE]
                     alt == Alternate(layer)
                 IN  /\ Called(t, alt.name) = 1
                     /\ Called(t, "S") = 0
                     /\ \A m \in RouteMethods \ {alt.name} : Called(t, m) = 0
                     /\ "ret" \in DOMAIN alt.out
                           => result[t] = ResponseResult(alt.out.ret)
                     /\ ("raise" \in DOMAIN alt.out /\ Guarded(layer)) =>
                           /\ result[t].kind = "response"
                           /\ result[t] # Outcome(job[t].terminal)
                           /\ result[t].response.status = alt.out.raise.attrs.status_code
                           /\ result[t].response.body.code = alt.out.raise.attrs.code
                           /\ result[t].response.body.details = alt.out.raise.attrs.details

\* The route view4/ on a PUT: the GET layer passes the request on, the PUT
\* layer's service raises and its exception_layer answers 500.
C13_Witness ==
    /\ MethodJob(MainThread)
    /\ Completed(MainThread)
    /\ Len(job[MainThread].outers) = 2
    /\ job[MainThread].request.method = "PUT"
    /\ job[MainThread].outers[1].condition.method = "GET"
    /\ Matching(MainThread) = {2}
    /\ Guarded(job[MainThread].outers[2])
    /\ Called(MainThread, "PUT") = 1
    /\ result[MainThread].kind = "response"
    /\ result[MainThread].response.status = 500

\* No layer's method is the request's: the terminal service answers.
C13_WitnessNoMatch ==
    /\ MethodJob(MainThread)
    /\ Completed(MainThread)
    /\ Len(job[MainThread].outers) = 2
    /\ Matching(MainThread) = {}
    /\ result[MainThread] = ResponseResult(view404_response)

(***************************************************************************)
(* C14.  authentication_layer, is_authenticated_layer and                  *)
(* has_permissions_layer in front of a service.                            *)
(***************************************************************************)
AuthJob(t) ==
    /\ Running(t)
    /\ \E P \in SUBSET Perms :
          job[t].outers \in {AuthLayers(P), <<DefaultExceptionLayer>> \o AuthLayers(P)}
RequiredPerms(t) == Last(job[t].outers).rules[1].permissions
\* The permissions of the users, as tests.py:259-291 grants them.
Granted ==
    [alice |-> {}, bob |-> {"test_app.view_testmodel"},
     carol |-> {"test_app.view_testmodel", "test_app.change_testmodel"}]
\* The authenticator resolved a principal, and it holds every permission.
Authorized(t) ==
    /\ job[t].request.user_id # ""
    /\ RequiredPerms(t) \subseteq Granted[job[t].request.user_id]

\* C14: in the chain authentication_layer, is_authenticated_layer,
\* has_permissions_layer(p1..pn) around S, S is invoked only for a request
\* whose principal was resolved, is authenticated and holds every one of
\* p1..pn; for a request without a principal the anonymous user is what is
\* stored under the user key, and for it and for a principal lacking a
\* permission the response is the 403 envelope and S is not invoked.
C14_AuthGate ==
    \A t \in Threads :
        AuthJob(t) =>
            /\ Called(t, "S") >= 1 => Authorized(t)
            /\ (cvar[t] # Missing /\ job[t].request.user_id = ""
                /\ USER_CONTEXT_KEY \in DOMAIN heap[cvar[t].addr])
                  => heap[cvar[t].addr][USER_CONTEXT_KEY] = AnonymousUser
            /\ Completed(t) =>
                  IF Authorized(t)
                  THEN /\ Called(t, "S") = 1
                       /\ result[t] = ResponseResult(OkResponse)
                  ELSE /\ Called(t, "S") = 0
                       /\ result[t] = ResponseResult(Envelope403)

\* A principal holding one of the two permissions listed is refused.
C14_Witness ==
    /\ AuthJob(MainThread)
    /\ Completed(MainThread)
    /\ job[MainThread].request.user_id = "bob"
    /\ RequiredPerms(MainThread) = Perms
    /\ Called(MainThread, "S") = 0
    /\ result[MainThread] = ResponseResult(Envelope403)

\* No principal: the anonymous user is stored and refused.
C14_WitnessAnonymous ==
    /\ AuthJob(MainThread)
    /\ job[MainThread].request.user_id = ""
    /\ cvar[MainThread] # Missing
    /\ USER_CONTEXT_KEY \in DOMAIN heap[cvar[MainThread].addr]
    /\ heap[cvar[MainThread].addr][USER_CONTEXT_KEY] = AnonymousUser
    /\ trace[MainThread] # <<>>
    /\ Last(trace[MainThread]) = Event("return", "view403")

\* A principal holding both permissions listed reaches S.
C14_WitnessAllowed ==
    /\ AuthJob(MainThread)
    /\ Completed(MainThread)
    /\ RequiredPerms(MainThread) = Perms
    /\ Called(MainThread, "S") = 1
    /\ result[MainThread] = ResponseResult(OkResponse)

(***************************************************************************)
(* C15.  exception_layer around a service.                                 *)
(***************************************************************************)
ExceptionJob(t) ==
    /\ Running(t)
    /\ Len(job[t].outers) = 1
    /\ job[t].outers[1].kind = "exception_layer"
ResultKey(t) == job[t].outers[1].result_ctx_key
Handler(t) == job[t].outers[1].exception_service
Data(t) == heap[cvar[t].addr]
Caught(t) == trace[t] # <<>> /\ Last(trace[t]) = Event("catch", "exception_layer")
\* The envelope of the default handler, field by field.
DefaultEnvelopeOf(e, response) ==
    LET status == IF "status_code" \in DOMAIN e.attrs THEN e.attrs.status_code ELSE 500
    IN  /\ response.status = status
        /\ DOMAIN response.body = {"message", "code", "details"}
        /\ response.body.code =
              (IF "code" \in DOMAIN e.attrs THEN e.attrs.code ELSE IntV(status))
        /\ response.body.details =
              (IF "details" \in DOMAIN e.attrs THEN e.attrs.details ELSE <<>>)

\* C15: when the service inside exception_layer raises, the failure is in
\* the context under the result key once it is caught, before the
\* error-handling service is called, and that service's response is what is
\* returned: from the default handler the envelope with status = the
\* failure's status_code or 500, code = its code or the status, details = its
\* details or {}.  When the service returns, nothing is written under the
\* result key and its response is returned as it is.
C15_CatchStoreDispatch ==
    \A t \in Threads :
        ExceptionJob(t) =>
            /\ Caught(t) =>
                  /\ IsRaising(job[t].terminal)
                  /\ ResultKey(t) \in DOMAIN Data(t)
                  /\ Data(t)[ResultKey(t)] = job[t].terminal.out.raise
                  /\ Called(t, "H") = 0
                  /\ Called(t, "default_exception_handler") = 0
                  /\ mode[t] = "call"
                  /\ reg[t] = Handler(t)
            /\ (ChainDone(t) /\ ~IsRaising(job[t].terminal)) =>
                  /\ mode[t] = "ret"
                  /\ reg[t] = job[t].terminal.out.ret
                  /\ CountEv(trace[t], "catch") = 0
                  /\ ResultKey(t) \notin DOMAIN Data(t)
            /\ (Completed(t) /\ IsRaising(job[t].terminal)) =>
                  /\ CountEv(trace[t], "catch") = 1
                  /\ (Handler(t) = default_exception_handler
                      /\ ResultKey(t) = EXCEPTION_RESULT_CONTEXT_KEY)
                        => /\ result[t].kind = "response"
                           /\ DefaultEnvelopeOf(job[t].terminal.out.raise,
                                                result[t].response)
                  /\ Handler(t) = H_ok(ResultKey(t))
                        => /\ result[t] = ResponseResult(HttpResponse("handled", 200))
                           /\ seen[t] = job[t].terminal.out.raise

\* A failure with a status of its own and no code: the envelope's code is the
\* status.
C15_Witness ==
    /\ ExceptionJob(MainThread)
    /\ Completed(MainThread)
    /\ Handler(MainThread) = default_exception_handler
    /\ job[MainThread].terminal = S_raise(Exc("boom", [status_code |-> 400]))
    /\ result[MainThread] =
          ResponseResult(JsonResponse([message |-> "boom", code |-> IntV(400),
                                       details |-> <<>>], 400))

\* The failure is under the caller's key when the caller's service is about to
\* be called.
C15_WitnessStored ==
    /\ ExceptionJob(MainThread)
    /\ Caught(MainThread)
    /\ ResultKey(MainThread) = "err"
    /\ Data(MainThread)["err"] = PlainException
    /\ reg[MainThread] = H_ok("err")

\* The service returned: its response, and no result key.
C15_WitnessReturned ==
    /\ ExceptionJob(MainThread)
    /\ ChainDone(MainThread)
    /\ job[MainThread].terminal = S_rw
    /\ reg[MainThread] = OkResponse
    /\ "k" \in DOMAIN Data(MainThread)
    /\ ResultKey(MainThread) \notin DOMAIN Data(MainThread)

(***************************************************************************)
(* C16.  create_service, update_service and delete_service after the       *)
(* mutator.                                                                *)
(***************************************************************************)
MutatingService ==
    ServiceCalled /\ svc.kind \in {"create_service", "update_service", "delete_service"}
\* The one call of the mutator, once it is made.
MutatorCalled == CallsOf("mutater") # {}
TheMutatorCall == calls[CHOOSE k \in CallsOf("mutater") : TRUE]
\* The form of the request is refused by the mutator of crud.py:194-228, and
\* accepted otherwise; the mutator of crud.py:231-235 refuses nothing.
MutatorRefuses ==
    svc.mutater = [kind |-> "model_mutator"] /\ ~crequest.form.valid
MutatorError ==
    [status |-> 400,
     body |-> [message |-> "failed to validate your requests", code |-> IntV(400),
               details |-> [name |-> "required"]]]

\* C16: when the mutator returns an error response it is the response of the
\* service and the serializer is not called; when it returns none,
\* create_service answers 201 and update_service 200 with the serialized
\* instance, and delete_service 204 without a body.  create_service calls
\* the mutator with no instance.
C16_MutatorOutcome ==
    MutatingService =>
        /\ Cardinality(CallsOf("mutater")) <= 1
        /\ (svc.kind = "create_service" /\ MutatorCalled)
              => TheMutatorCall.arg = None
        /\ (ServiceDone /\ MutatorCalled /\ outcome.kind = "response") =>
              IF MutatorRefuses
              THEN /\ outcome.response = MutatorError
                   /\ CallsOf("serializer") = {}
              ELSE IF svc.kind = "delete_service"
              THEN /\ outcome.response.status = 204
                   /\ outcome.response.body = [content |-> ""]
                   /\ CallsOf("serializer") = {}
              ELSE /\ outcome.response.status =
                         (IF svc.kind = "create_service" THEN 201 ELSE 200)
                   /\ Cardinality(CallsOf("serializer")) = 1
                   /\ \A k \in CallsOf("serializer") :
                         /\ calls[k].arg # None
                         /\ outcome.response.body.content =
                               [pk |-> calls[k].arg.pk, model |-> "test_app.testmodel",
                                fields |-> [name |-> calls[k].arg.name]]
                         /\ svc.mutater = [kind |-> "model_mutator"]
                               => /\ calls[k].arg.name = crequest.form.name
                                  /\ \E i \in 1..Len(table) : table[i] = calls[k].arg
        /\ (ServiceDone /\ MutatorCalled /\ MutatorRefuses) => outcome.kind = "response"

\* create_service with a form that is accepted: 201 and the new row.
C16_Witness ==
    /\ ServiceDone
    /\ svc.kind = "create_service"
    /\ TheMutatorCall.arg = None
    /\ outcome.kind = "response"
    /\ outcome.response.status = 201
    /\ outcome.response.body.content.fields.name = "n"
    /\ Len(table) = 3

\* update_service with a form that is refused: the 400 of the mutator.
C16_WitnessError ==
    /\ ServiceDone
    /\ svc.kind = "update_service"
    /\ MutatorCalled
    /\ outcome = ResponseResult(MutatorError)
    /\ CallsOf("serializer") = {}

\* delete_service: 204 and the row is gone.
C16_WitnessDeleted ==
    /\ ServiceDone
    /\ svc.kind = "delete_service"
    /\ MutatorCalled
    /\ outcome.kind = "response"
    /\ outcome.response.status = 204
    /\ \A i \in 1..Len(table) : table[i].pk # TheMutatorCall.arg.pk

(***************************************************************************)
(* C17.  The pagination filterer on every integer.                         *)
(***************************************************************************)
\* C17, as claimed: whatever integers the limit and offset parameters hold,
\* zero and negative ones included, the pagination filterer returns a slice
\* of the collection, raising nothing, and the slice holds at most 500 items.
C17_NeverRaises ==
    (ServiceCalled /\ IsInteger(Param("limit")) /\ IsInteger(Param("offset"))) =>
        \A k \in PageCalls :
            /\ calls[k].ret # None
            /\ Len(calls[k].ret.items) <= 500
            /\ \A i \in 1..Len(calls[k].ret.items) :
                  \E p \in Positions(calls[k].arg) :
                      calls[k].ret.items[i] = ItemAt(calls[k].arg, p)
====
